---- MODULE Spec2Model ----
(***************************************************************************)
(* Review/revision workflow of the presentation-plan agent.                *)
(*                                                                         *)
(* The model follows src/src/ppt_agent: the AgentState record              *)
(* (graph/state.py), the node functions and routers (graph/nodes.py), the  *)
(* graph wiring with its interrupt after present_for_review               *)
(* (graph/workflow.py) and the two drivers run_agent and submit_feedback   *)
(* (agent.py).                                                             *)
(*                                                                         *)
(* Texts are sequences of one-character strings so that lower() and        *)
(* strip() are computed, not assumed.  Optional values are sequences of    *)
(* length 0 (None) or 1.                                                   *)
(*                                                                         *)
(* Graph runtime: a run executes the node a thread is at, merges the       *)
(* partial update it returns (messages are appended, every other key is    *)
(* overwritten), and follows the edge out of the node.  A run stops after  *)
(* present_for_review (interrupt_after) and at END.  A driver call with    *)
(* {"user_feedback": x} on a thread stopped after present_for_review       *)
(* writes x and continues with the conditional edge out of                 *)
(* present_for_review; on a thread whose run reached END it writes x and   *)
(* starts a new run at the entry point, with every other field as it was.  *)
(*                                                                         *)
(* That holds when the thread's state is checkpointed.  compile_graph      *)
(* passes no checkpointer (the MemorySaver lines are commented out), so a  *)
(* checkpointer is there only when the host that loads the exported graph  *)
(* supplies one.  Both cases are modelled (checkpointer).  Without one     *)
(* nothing is kept under the thread id: a later call has only its input,   *)
(* the state cannot be rebuilt (document is required and is read outside   *)
(* any try block) and the call raises.                                     *)
(***************************************************************************)
EXTENDS Integers, Sequences, FiniteSets, TLC

VARIABLES
    state,      \* thread_id -> AgentState (the persisted state of the thread)
    pc,         \* thread_id -> where the thread's run is
    driver,     \* thread_id -> which driver owns the thread
    probe,      \* a review decision evaluated on its own: its input and result
    checkpointer, \* whether the graph runs with a checkpointer
    inflight    \* submit_feedback calls running at once on one thread

vars == <<state, pc, driver, probe, checkpointer, inflight>>

----------------------------------------------------------------------------
(* Bounds of the model *)

\* longest message log after which the drivers stop sending feedback
MaxMessages == 6
\* largest max_revisions a caller of the graph passes in besides the default
MaxRevisionsInput == 1
\* largest revision_count and max_revisions a review decision is evaluated on
MaxProbe == 3

(* Program constants *)

\* AgentState.max_revisions default
DefaultMaxRevisions == 5
\* PresentationPlan.estimated_duration_minutes default
DefaultDuration == 30

\* thread ids the drivers are called with
ThreadIds == {"t1"}
\* the threads that exist
Threads == DOMAIN pc

None == <<>>
Some(v) == <<v>>
IsSet(o) == o # None
Get(o) == o[1]

----------------------------------------------------------------------------
(* Text: str.lower() and str.strip() *)

Uppercase == <<"A","B","C","D","E","F","G","H","I","J","K","L","M",
               "N","O","P","Q","R","S","T","U","V","W","X","Y","Z">>
Lowercase == <<"a","b","c","d","e","f","g","h","i","j","k","l","m",
               "n","o","p","q","r","s","t","u","v","w","x","y","z">>
Whitespace == {" ", "\t", "\n", "\r"}

LowerChar(c) ==
    IF \E i \in 1..Len(Uppercase) : Uppercase[i] = c
    THEN Lowercase[CHOOSE i \in 1..Len(Uppercase) : Uppercase[i] = c]
    ELSE c

StrLower(s) == [i \in 1..Len(s) |-> LowerChar(s[i])]

StrStrip(s) ==
    LET keep == {i \in 1..Len(s) : s[i] \notin Whitespace}
    IN  IF keep = {} THEN <<>>
        ELSE LET first == CHOOSE i \in keep : \A j \in keep : i <= j
                 last  == CHOOSE i \in keep : \A j \in keep : j <= i
             IN  SubSeq(s, first, last)

APPROVE == <<"a","p","r","o","b","a","r">>
REJECT  == <<"r","e","c","h","a","z","a","r">>

\* the texts a user types
FeedbackInputs ==
    { APPROVE,
      <<" ","A","p","r","o","b","a","r","\n">>,
      REJECT,
      <<"R","E","C","H","A","Z","A","R"," ">>,
      <<>>,
      <<" ","\t">>,
      <<"n","o"," ","a","p","r","o","b","a","r">>,
      <<"m","a","s"," ","d","a","t","o","s">> }

----------------------------------------------------------------------------
(* Plan schema (schemas/slides.py) *)

SlideTypes == {"title", "agenda", "content", "key_points", "section_header", "closing"}

PlanA == [ title |-> <<"Propuesta">>,
           estimated_duration_minutes |-> DefaultDuration,
           slides |-> << [slide_type |-> "title",   title |-> <<"Propuesta">>],
                         [slide_type |-> "content", title |-> <<"Enfoque">>] >> ]

PlanB == [ title |-> <<"Propuesta v2">>,
           estimated_duration_minutes |-> DefaultDuration,
           slides |-> << [slide_type |-> "title",      title |-> <<"Propuesta v2">>],
                         [slide_type |-> "key_points", title |-> <<"Costos">>],
                         [slide_type |-> "closing",    title |-> <<"Thank You">>] >> ]

\* the plans the structured LLM returns
Plans == {PlanA, PlanB}

get_slide_count(plan) == Len(plan.slides)

get_slide_summary(plan) ==
    [ title    |-> plan.title,
      count    |-> get_slide_count(plan),
      duration |-> plan.estimated_duration_minutes,
      lines    |-> [i \in 1..Len(plan.slides) |->
                      [ index      |-> i,
                        slide_type |-> plan.slides[i].slide_type,
                        title      |-> plan.slides[i].title ]] ]

NoSummary == [title |-> <<>>, count |-> 0, duration |-> 0, lines |-> <<>>]

\* The text of the summary. A text here is a sequence of pieces: a piece is
\* a literal of the format string, a formatted number, a slide type, one
\* padding blank, the line break "\n", or a stretch of a title without a
\* line break.

\* f"{i:2}", f"{slide_type:15}" and "-" * 40
IndexWidth == 2
SlideTypeWidth == 15
RuleWidth == 40

\* len(slide_type.value)
TypeLen(tag) ==
    CASE tag = "title"          -> 5
      [] tag = "agenda"         -> 6
      [] tag = "content"        -> 7
      [] tag = "key_points"     -> 10
      [] tag = "section_header" -> 14
      [] tag = "closing"        -> 7

Spaces(n) == [i \in 1..n |-> " "]

\* f"{i:2}": right-aligned, never cut
FormatIndex(i) ==
    LET digits == IF i < 10 THEN 1 ELSE IF i < 100 THEN 2 ELSE 3
    IN  Spaces(IF digits < IndexWidth THEN IndexWidth - digits ELSE 0)
        \o <<ToString(i)>>

\* f"{slide.slide_type.value:15}": left-aligned, never cut
FormatType(tag) ==
    <<tag>> \o Spaces(IF TypeLen(tag) < SlideTypeWidth
                      THEN SlideTypeWidth - TypeLen(tag) ELSE 0)

\* f"{i:2}. [{slide.slide_type.value:15}] {slide_title}"
slide_line(line) ==
    FormatIndex(line.index) \o <<". [">> \o FormatType(line.slide_type)
    \o <<"] ">> \o line.title

\* "\n".join(lines)
RECURSIVE Join(_)
Join(lines) ==
    IF lines = <<>> THEN <<>>
    ELSE IF Len(lines) = 1 THEN lines[1]
    ELSE lines[1] \o <<"\n">> \o Join(Tail(lines))

\* the string get_slide_summary returns, from the values it formats
SummaryText(summary) ==
    Join(<< <<"Presentation: ">> \o summary.title,
            <<"Slides: ", ToString(summary.count)>>,
            <<"Duration: ~", ToString(summary.duration), " minutes">>,
            <<>>,
            <<"Slide Structure:">>,
            [i \in 1..RuleWidth |-> "-"] >>
         \o [i \in 1..Len(summary.lines) |-> slide_line(summary.lines[i])])

----------------------------------------------------------------------------
(* Workflow state (graph/state.py) *)

PENDING == "pending"
DRAFT == "draft"
REVISION_REQUESTED == "revision_requested"
APPROVED == "approved"
REJECTED == "rejected"
PlanStatus == {PENDING, DRAFT, REVISION_REQUESTED, APPROVED, REJECTED}

Documents == {"doc"}
Analyses == {[main_topic |-> "nube"]}
Exceptions == {"timeout", "validation"}

AgentState(doc, maxrev) ==
    [ document          |-> doc,
      document_analysis |-> None,
      presentation_plan |-> None,
      status            |-> PENDING,
      user_feedback     |-> <<>>,
      revision_count    |-> 0,
      max_revisions     |-> maxrev,
      messages          |-> <<>>,
      error             |-> None ]

\* a message of the log: the node that wrote it, what it reports, the plan
\* summary it carries, a text (topic, exception or rendering note), a number
AIMessage(node, kind, summary, text, n) ==
    [node |-> node, kind |-> kind, summary |-> summary, text |-> text, n |-> n]

\* a merge without the add_messages reducer: messages is overwritten too
Merge_overwrites_messages(st, upd) ==
    [k \in DOMAIN st |-> IF k \in DOMAIN upd THEN upd[k] ELSE st[k]]

\* the update a node returns is merged into the state: add_messages appends
\* to messages, every other key overwrites
Merge(st, upd) ==
    [k \in DOMAIN st |->
        IF k \notin DOMAIN upd THEN st[k]
        ELSE IF k = "messages" THEN st[k] \o upd[k]
        ELSE upd[k]]

----------------------------------------------------------------------------
(* What the collaborators answer *)

\* chain.ainvoke: a structured result, or an exception the node catches
LLMOutcomes(results) ==
    {[kind |-> "ok", result |-> Some(r), exc |-> ""] : r \in results}
    \cup {[kind |-> "fail", result |-> None, exc |-> e] : e \in Exceptions}

\* finalize_plan: no credential configured, deck created, or the service raised
RenderOutcomes == {"no_credentials", "created", "failed"}

----------------------------------------------------------------------------
(* Node functions (graph/nodes.py): each returns the partial update *)

analyze_document(st, out) ==
    IF out.kind = "ok"
    THEN [ document_analysis |-> out.result,
           messages |-> << AIMessage("analyze_document", "ok", NoSummary,
                                     Get(out.result).main_topic, 0) >> ]
    ELSE [ error    |-> Some(<<"Failed to analyze document", out.exc>>),
           messages |-> << AIMessage("analyze_document", "error", NoSummary,
                                     out.exc, 0) >> ]

\* generate_plan that leaves the status as it finds it
generate_plan_keeps_status(st, out) ==
    IF out.kind = "ok"
    THEN [ presentation_plan |-> out.result,
           messages |-> << AIMessage("generate_plan", "ok",
                                     get_slide_summary(Get(out.result)), "",
                                     get_slide_count(Get(out.result))) >> ]
    ELSE [ error    |-> Some(<<"Failed to generate plan", out.exc>>),
           messages |-> << AIMessage("generate_plan", "error", NoSummary,
                                     out.exc, 0) >> ]

\* generate_plan whose failure branch reports a draft
generate_plan_failure_sets_draft(st, out) ==
    IF out.kind = "ok"
    THEN [ presentation_plan |-> out.result,
           status   |-> DRAFT,
           messages |-> << AIMessage("generate_plan", "ok",
                                     get_slide_summary(Get(out.result)), "",
                                     get_slide_count(Get(out.result))) >> ]
    ELSE [ error    |-> Some(<<"Failed to generate plan", out.exc>>),
           status   |-> DRAFT,
           messages |-> << AIMessage("generate_plan", "error", NoSummary,
                                     out.exc, 0) >> ]

generate_plan(st, out) ==
    IF out.kind = "ok"
    THEN [ presentation_plan |-> out.result,
           status   |-> DRAFT,
           messages |-> << AIMessage("generate_plan", "ok",
                                     get_slide_summary(Get(out.result)), "",
                                     get_slide_count(Get(out.result))) >> ]
    ELSE [ error    |-> Some(<<"Failed to generate plan", out.exc>>),
           status   |-> PENDING,
           messages |-> << AIMessage("generate_plan", "error", NoSummary,
                                     out.exc, 0) >> ]

\* revise_plan whose failure branch also clears the feedback
revise_plan_failure_clears_feedback(st, out) ==
    IF out.kind = "ok"
    THEN [ presentation_plan |-> out.result,
           status         |-> DRAFT,
           revision_count |-> st.revision_count + 1,
           user_feedback  |-> <<>>,
           messages |-> << AIMessage("revise_plan", "ok",
                                     get_slide_summary(Get(out.result)), "", 0) >> ]
    ELSE [ error    |-> Some(<<"Failed to revise plan", out.exc>>),
           user_feedback |-> <<>>,
           messages |-> << AIMessage("revise_plan", "error", NoSummary,
                                     out.exc, 0) >> ]

\* revise_plan that forgets to count the revision
revise_plan_not_counted(st, out) ==
    IF out.kind = "ok"
    THEN [ presentation_plan |-> out.result,
           status         |-> DRAFT,
           user_feedback  |-> <<>>,
           messages |-> << AIMessage("revise_plan", "ok",
                                     get_slide_summary(Get(out.result)), "", 0) >> ]
    ELSE [ error    |-> Some(<<"Failed to revise plan", out.exc>>),
           messages |-> << AIMessage("revise_plan", "error", NoSummary,
                                     out.exc, 0) >> ]

\* revise_plan whose failure branch drops the plan it could not revise
revise_plan_failure_drops_plan(st, out) ==
    IF out.kind = "ok"
    THEN [ presentation_plan |-> out.result,
           status         |-> DRAFT,
           revision_count |-> st.revision_count + 1,
           user_feedback  |-> <<>>,
           messages |-> << AIMessage("revise_plan", "ok",
                                     get_slide_summary(Get(out.result)), "", 0) >> ]
    ELSE [ error    |-> Some(<<"Failed to revise plan", out.exc>>),
           presentation_plan |-> None,
           messages |-> << AIMessage("revise_plan", "error", NoSummary,
                                     out.exc, 0) >> ]

\* revise_plan that takes the revision off max_revisions
revise_plan_spends_budget(st, out) ==
    IF out.kind = "ok"
    THEN [ presentation_plan |-> out.result,
           status         |-> DRAFT,
           max_revisions  |-> st.max_revisions - 1,
           user_feedback  |-> <<>>,
           messages |-> << AIMessage("revise_plan", "ok",
                                     get_slide_summary(Get(out.result)), "", 0) >> ]
    ELSE [ error    |-> Some(<<"Failed to revise plan", out.exc>>),
           messages |-> << AIMessage("revise_plan", "error", NoSummary,
                                     out.exc, 0) >> ]

\* revise_plan that marks a failed revision in the status
revise_plan_failure_marks_requested(st, out) ==
    IF out.kind = "ok"
    THEN [ presentation_plan |-> out.result,
           status         |-> DRAFT,
           revision_count |-> st.revision_count + 1,
           user_feedback  |-> <<>>,
           messages |-> << AIMessage("revise_plan", "ok",
                                     get_slide_summary(Get(out.result)), "", 0) >> ]
    ELSE [ error    |-> Some(<<"Failed to revise plan", out.exc>>),
           status   |-> REVISION_REQUESTED,
           messages |-> << AIMessage("revise_plan", "error", NoSummary,
                                     out.exc, 0) >> ]

revise_plan(st, out) ==
    IF out.kind = "ok"
    THEN [ presentation_plan |-> out.result,
           status         |-> DRAFT,
           revision_count |-> st.revision_count + 1,
           user_feedback  |-> <<>>,
           messages |-> << AIMessage("revise_plan", "ok",
                                     get_slide_summary(Get(out.result)), "", 0) >> ]
    ELSE [ error    |-> Some(<<"Failed to revise plan", out.exc>>),
           messages |-> << AIMessage("revise_plan", "error", NoSummary,
                                     out.exc, 0) >> ]

\* present_for_review that marks a missing plan in the status
present_for_review_marks_status(st) ==
    IF st.presentation_plan = None
    THEN [ status   |-> PENDING,
           messages |-> << AIMessage("present_for_review", "no_plan", NoSummary,
                                     "", 0) >> ]
    ELSE [ messages |-> << AIMessage("present_for_review", "review",
                                     get_slide_summary(Get(st.presentation_plan)), "",
                                     st.max_revisions - st.revision_count) >> ]

present_for_review(st) ==
    IF st.presentation_plan = None
    THEN [ messages |-> << AIMessage("present_for_review", "no_plan", NoSummary,
                                     "", 0) >> ]
    ELSE [ messages |-> << AIMessage("present_for_review", "review",
                                     get_slide_summary(Get(st.presentation_plan)), "",
                                     st.max_revisions - st.revision_count) >> ]

\* finalize_plan that treats a rendering failure as a failure of the step
finalize_plan_render_failure_is_error(st, render) ==
    IF st.presentation_plan = None
    THEN [ error    |-> Some(<<"No plan to finalize", "">>),
           messages |-> << AIMessage("finalize_plan", "error", NoSummary, "", 0) >> ]
    ELSE IF render = "failed"
    THEN [ error    |-> Some(<<"Could not create Google Slides", "">>),
           messages |-> << AIMessage("finalize_plan", "error", NoSummary, render, 0) >> ]
    ELSE [ status   |-> APPROVED,
           messages |-> << AIMessage("finalize_plan", "ok",
                                     get_slide_summary(Get(st.presentation_plan)),
                                     render, 0) >> ]

\* finalize_plan that approves even when there is no plan
finalize_plan_approves_without_plan(st, render) ==
    IF st.presentation_plan = None
    THEN [ error    |-> Some(<<"No plan to finalize", "">>),
           status   |-> APPROVED,
           messages |-> << AIMessage("finalize_plan", "error", NoSummary, "", 0) >> ]
    ELSE [ status   |-> APPROVED,
           messages |-> << AIMessage("finalize_plan", "ok",
                                     get_slide_summary(Get(st.presentation_plan)),
                                     render, 0) >> ]

finalize_plan(st, render) ==
    IF st.presentation_plan = None
    THEN [ error    |-> Some(<<"No plan to finalize", "">>),
           messages |-> << AIMessage("finalize_plan", "error", NoSummary, "", 0) >> ]
    ELSE [ status   |-> APPROVED,
           messages |-> << AIMessage("finalize_plan", "ok",
                                     get_slide_summary(Get(st.presentation_plan)),
                                     render, 0) >> ]

\* handle_rejection that also drops the plan
handle_rejection_clears_plan(st) ==
    [ status   |-> REJECTED,
      presentation_plan |-> None,
      messages |-> << AIMessage("handle_rejection", "ok", NoSummary, "", 0) >> ]

handle_rejection(st) ==
    [ status   |-> REJECTED,
      messages |-> << AIMessage("handle_rejection", "ok", NoSummary, "", 0) >> ]

----------------------------------------------------------------------------
(* Routers (graph/nodes.py) *)

\* should_continue_review with the budget test off by one
should_continue_review_late_budget(st) ==
    LET feedback == StrStrip(StrLower(st.user_feedback))
    IN  IF feedback = APPROVE THEN "finalize"
        ELSE IF feedback = REJECT THEN "reject"
        ELSE IF st.revision_count > st.max_revisions THEN "max_revisions"
        ELSE "revise"

\* should_continue_review with the budget test ahead of the keywords
should_continue_review_budget_first(st) ==
    LET feedback == StrStrip(StrLower(st.user_feedback))
    IN  IF st.revision_count >= st.max_revisions THEN "max_revisions"
        ELSE IF feedback = APPROVE THEN "finalize"
        ELSE IF feedback = REJECT THEN "reject"
        ELSE "revise"

\* should_continue_review looking for the keyword anywhere in the feedback
should_continue_review_contains(st) ==
    LET feedback == StrStrip(StrLower(st.user_feedback))
        Has(kw) == \E i \in 1..Len(feedback) :
                      /\ i + Len(kw) - 1 <= Len(feedback)
                      /\ SubSeq(feedback, i, i + Len(kw) - 1) = kw
    IN  IF Has(APPROVE) THEN "finalize"
        ELSE IF Has(REJECT) THEN "reject"
        ELSE IF st.revision_count >= st.max_revisions THEN "max_revisions"
        ELSE "revise"

should_continue_review(st) ==
    LET feedback == StrStrip(StrLower(st.user_feedback))
    IN  IF feedback = APPROVE THEN "finalize"
        ELSE IF feedback = REJECT THEN "reject"
        ELSE IF st.revision_count >= st.max_revisions THEN "max_revisions"
        ELSE "revise"

check_for_errors(st) ==
    IF IsSet(st.error) THEN "error" ELSE "continue"

----------------------------------------------------------------------------
(* Graph wiring (graph/workflow.py) *)

EntryPoint == "analyze_document"

\* the edges of analyze_document without the error check
AfterAnalyze_ignores_error(st) == "generate_plan"

AfterAnalyze(st) ==
    IF check_for_errors(st) = "error" THEN "END" ELSE "generate_plan"

\* the edges of generate_plan without the error check
AfterGenerate_ignores_error(st) == "present_for_review"

AfterGenerate(st) ==
    IF check_for_errors(st) = "error" THEN "END" ELSE "present_for_review"

\* the edges of present_for_review with "max_revisions" wired to revise_plan
AfterReview_revise_at_limit(st) ==
    LET route == should_continue_review(st)
    IN  CASE route = "finalize"      -> "finalize_plan"
          [] route = "reject"        -> "handle_rejection"
          [] route = "revise"        -> "revise_plan"
          [] route = "max_revisions" -> "revise_plan"

AfterReview(st) ==
    LET route == should_continue_review(st)
    IN  CASE route = "finalize"      -> "finalize_plan"
          [] route = "reject"        -> "handle_rejection"
          [] route = "revise"        -> "revise_plan"
          [] route = "max_revisions" -> "finalize_plan"

AfterRevise(st) ==
    IF check_for_errors(st) = "error" THEN "END" ELSE "present_for_review"

\* a graph compiled without interrupt_after
InterruptAfter_none == {}

\* interrupt_after = ["present_for_review"]: the run stops before the edge
\* out of present_for_review is followed
InterruptAfter == {"present_for_review"}

\* the thread a run stopped on: where it waits
Interrupted == "interrupted"

----------------------------------------------------------------------------
(* Initial state: each thread is started by one of the two drivers *)

Drivers == {"run_agent", "submit_feedback"}

\* run_agent builds AgentState(document=document); a caller of the exported
\* graph passes its own initial state
MaxRevisionsOf(d) ==
    IF d = "run_agent" THEN {DefaultMaxRevisions}
    ELSE (0..MaxRevisionsInput) \cup {DefaultMaxRevisions}

NoProbe == [st |-> AgentState("", 0), next |-> "none"]

\* the calls of submit_feedback that may run at the same time
CallIds == {"c1", "c2"}

\* no call has arrived; revised counts the revise_plan runs that succeeded
NoCalls ==
    [ calls   |-> [c \in CallIds |-> [st |-> AgentState("", 0), node |-> "idle"]],
      revised |-> 0 ]

Init ==
    /\ driver \in [ThreadIds -> Drivers]
    /\ state \in [ThreadIds -> {AgentState(doc, m) :
                                doc \in Documents,
                                m \in (0..MaxRevisionsInput) \cup {DefaultMaxRevisions}}]
    /\ \A s \in ThreadIds : state[s].max_revisions \in MaxRevisionsOf(driver[s])
    /\ pc = [s \in ThreadIds |-> EntryPoint]
    /\ probe = NoProbe
    /\ checkpointer \in BOOLEAN
    /\ inflight = NoCalls

----------------------------------------------------------------------------
(* One node of a run: merge the update, follow the edge *)

\* a store that keeps one state for all thread ids
Advance_one_state_for_all(s, st2, next) ==
    /\ state' = [t \in Threads |-> st2]
    /\ pc' = [pc EXCEPT ![s] = next]
    /\ UNCHANGED <<driver, probe, checkpointer, inflight>>

Advance(s, st2, next) ==
    /\ state' = [state EXCEPT ![s] = st2]
    /\ pc' = [pc EXCEPT ![s] = next]
    /\ UNCHANGED <<driver, probe, checkpointer, inflight>>

AnalyzeDocument(s) ==
    /\ pc[s] = "analyze_document"
    /\ \E out \in LLMOutcomes(Analyses) :
         LET st2 == Merge(state[s], analyze_document(state[s], out))
         IN  Advance(s, st2, AfterAnalyze(st2))

GeneratePlan(s) ==
    /\ pc[s] = "generate_plan"
    /\ \E out \in LLMOutcomes(Plans) :
         LET st2 == Merge(state[s], generate_plan(state[s], out))
         IN  Advance(s, st2, AfterGenerate(st2))

PresentForReview(s) ==
    /\ pc[s] = "present_for_review"
    /\ LET st2 == Merge(state[s], present_for_review(state[s]))
       IN  Advance(s, st2, IF "present_for_review" \in InterruptAfter
                           THEN Interrupted ELSE AfterReview(st2))

RevisePlan(s) ==
    /\ pc[s] = "revise_plan"
    /\ \E out \in LLMOutcomes(Plans) :
         LET st2 == Merge(state[s], revise_plan(state[s], out))
         IN  Advance(s, st2, AfterRevise(st2))

FinalizePlan(s) ==
    /\ pc[s] = "finalize_plan"
    /\ \E render \in RenderOutcomes :
         Advance(s, Merge(state[s], finalize_plan(state[s], render)), "END")

HandleRejection(s) ==
    /\ pc[s] = "handle_rejection"
    /\ Advance(s, Merge(state[s], handle_rejection(state[s])), "END")

\* get_structured_llm is called before the try block of analyze_document,
\* generate_plan and revise_plan: when it raises, the exception leaves the
\* node and the run; nothing is merged and the thread is not called again
ClientRaises(s) ==
    /\ pc[s] \in {"analyze_document", "generate_plan", "revise_plan"}
    /\ pc' = [pc EXCEPT ![s] = "raised"]
    /\ UNCHANGED <<state, driver, probe, checkpointer, inflight>>

----------------------------------------------------------------------------
(* Drivers (agent.py) *)

\* graph.ainvoke({"user_feedback": x}, config) on a thread that is stopped
ainvoke(s, x) ==
    IF checkpointer
    THEN LET st2 == Merge(state[s], [user_feedback |-> x])
         IN  Advance(s, st2, IF pc[s] = Interrupted THEN AfterReview(st2)
                             ELSE EntryPoint)
    ELSE Advance(s, state[s], "raised")

Stopped(s) == pc[s] \in {Interrupted, "END"}

\* one pass of the review loop of run_agent
run_agent(s) ==
    /\ driver[s] = "run_agent"
    /\ Stopped(s)
    /\ state[s].status = DRAFT
    /\ Len(state[s].messages) < MaxMessages
    /\ \E line \in FeedbackInputs :
         LET user_input == StrStrip(line)
         IN  IF user_input = <<>>
             THEN UNCHANGED vars
             ELSE ainvoke(s, user_input)

submit_feedback(s) ==
    /\ driver[s] = "submit_feedback"
    /\ Stopped(s)
    /\ Len(state[s].messages) < MaxMessages
    /\ \E feedback \in FeedbackInputs : ainvoke(s, feedback)

----------------------------------------------------------------------------

Next ==
    \E s \in Threads :
        \/ AnalyzeDocument(s)
        \/ GeneratePlan(s)
        \/ PresentForReview(s)
        \/ RevisePlan(s)
        \/ FinalizePlan(s)
        \/ HandleRejection(s)
        \/ ClientRaises(s)
        \/ run_agent(s)
        \/ submit_feedback(s)

Spec == Init /\ [][Next]_vars

----------------------------------------------------------------------------
(* The two drivers side by side: thread "i" is driven by run_agent, thread   *)
(* "a" by a caller of the exported graph that starts one run and then calls  *)
(* submit_feedback once per input. Both get the same document, and in every  *)
(* round the same input line and the same answers of the collaborators.      *)

\* what the collaborators answer during one call of the graph
CallOutcomes ==
    [ analysis : LLMOutcomes(Analyses),
      plan     : LLMOutcomes(Plans),
      render   : RenderOutcomes,
      client   : {"ok", "raises"} ]

\* graph.ainvoke: the nodes run one after the other from `node` until the run
\* ends, stops after present_for_review, or an exception leaves it
RECURSIVE RunFrom(_, _, _)
RunFrom(st, node, o) ==
    IF node \in {"END", Interrupted, "raised"}
    THEN [st |-> st, pc |-> node]
    ELSE IF node \in {"analyze_document", "generate_plan", "revise_plan"}
            /\ o.client = "raises"
    THEN [st |-> st, pc |-> "raised"]
    ELSE CASE node = "analyze_document" ->
                LET st2 == Merge(st, analyze_document(st, o.analysis))
                IN  RunFrom(st2, AfterAnalyze(st2), o)
           [] node = "generate_plan" ->
                LET st2 == Merge(st, generate_plan(st, o.plan))
                IN  RunFrom(st2, AfterGenerate(st2), o)
           [] node = "present_for_review" ->
                LET st2 == Merge(st, present_for_review(st))
                IN  RunFrom(st2, IF node \in InterruptAfter THEN Interrupted
                                 ELSE AfterReview(st2), o)
           [] node = "revise_plan" ->
                LET st2 == Merge(st, revise_plan(st, o.plan))
                IN  RunFrom(st2, AfterRevise(st2), o)
           [] node = "finalize_plan" ->
                RunFrom(Merge(st, finalize_plan(st, o.render)), "END", o)
           [] node = "handle_rejection" ->
                RunFrom(Merge(st, handle_rejection(st)), "END", o)

\* graph.ainvoke({"user_feedback": x}, config) on a stopped thread, run to its
\* next stop
Resume(st, node, x, o) ==
    IF checkpointer
    THEN LET st2 == Merge(st, [user_feedback |-> x])
         IN  RunFrom(st2, IF node = Interrupted THEN AfterReview(st2)
                          ELSE EntryPoint, o)
    ELSE [st |-> st, pc |-> "raised"]

PairInit ==
    /\ driver = [i |-> "run_agent", a |-> "submit_feedback"]
    /\ \E doc \in Documents :
         state = [s \in {"i", "a"} |-> AgentState(doc, DefaultMaxRevisions)]
    /\ pc = [s \in {"i", "a"} |-> EntryPoint]
    /\ probe = NoProbe
    /\ checkpointer \in BOOLEAN
    /\ inflight = NoCalls

\* the first call of both drivers: graph.ainvoke(initial state)
PairStart ==
    /\ \A s \in Threads : pc[s] = EntryPoint /\ state[s].messages = <<>>
    /\ \E o \in CallOutcomes :
         LET r == [s \in Threads |-> RunFrom(state[s], EntryPoint, o)]
         IN  /\ state' = [s \in Threads |-> r[s].st]
             /\ pc' = [s \in Threads |-> r[s].pc]
    /\ UNCHANGED <<driver, probe, checkpointer, inflight>>

\* one line read by the loop of run_agent, and the same line passed to
\* submit_feedback
PairFeedback ==
    /\ Stopped("i")
    /\ state["i"].status = DRAFT
    /\ \A s \in Threads : Len(state[s].messages) < MaxMessages
    /\ \E line \in FeedbackInputs, o \in CallOutcomes :
         LET user_input == StrStrip(line)
             ri == IF user_input = <<>>
                   THEN [st |-> state["i"], pc |-> pc["i"]]
                   ELSE Resume(state["i"], pc["i"], user_input, o)
             ra == IF Stopped("a")
                   THEN Resume(state["a"], pc["a"], line, o)
                   ELSE [st |-> state["a"], pc |-> pc["a"]]
         IN  /\ state' = [i |-> ri.st, a |-> ra.st]
             /\ pc' = [i |-> ri.pc, a |-> ra.pc]
    /\ UNCHANGED <<driver, probe, checkpointer, inflight>>

PairNext == PairStart \/ PairFeedback

PairSpec == PairInit /\ [][PairNext]_vars

----------------------------------------------------------------------------
(* Two threads at once: thread "t1" under run_agent and thread "t2" under a  *)
(* caller of submit_feedback, each with its own thread_id in config, their   *)
(* steps interleaved in every order. The runs are cut when the two message   *)
(* logs together reach IsoMessages.                                          *)

IsoMessages == 7

IsoInit ==
    /\ driver = [t1 |-> "run_agent", t2 |-> "submit_feedback"]
    /\ \E doc \in Documents :
         state = [s \in {"t1", "t2"} |-> AgentState(doc, DefaultMaxRevisions)]
    /\ pc = [s \in {"t1", "t2"} |-> EntryPoint]
    /\ probe = NoProbe
    /\ checkpointer = TRUE
    /\ inflight = NoCalls

IsoNext ==
    /\ Len(state["t1"].messages) + Len(state["t2"].messages) < IsoMessages
    /\ Next

IsoSpec == IsoInit /\ [][IsoNext]_vars

----------------------------------------------------------------------------
(* Two submit_feedback calls for the same thread_id at the same time.        *)
(* submit_feedback awaits graph.ainvoke and takes no lock, so a second call  *)
(* can start while the first is waiting for the language model. Each call    *)
(* reads the thread's checkpoint when it starts, runs its nodes on what it   *)
(* read, and writes the checkpoint after each node.                          *)

\* the first run of the thread, up to its stop after present_for_review
FirstRun(s) ==
    /\ inflight = NoCalls
    /\ \/ AnalyzeDocument(s)
       \/ GeneratePlan(s)
       \/ PresentForReview(s)
       \/ ClientRaises(s)

\* submit_feedback: graph.ainvoke reads the checkpoint of the stopped thread
\* and follows the edge out of present_for_review with the feedback written
CallStarts(s, c) ==
    /\ checkpointer
    /\ pc[s] = Interrupted
    /\ inflight.calls[c].node = "idle"
    /\ \E feedback \in FeedbackInputs :
         LET st2 == Merge(state[s], [user_feedback |-> feedback])
         IN  inflight' = [inflight EXCEPT
                            !.calls[c] = [st |-> st2, node |-> AfterReview(st2)]]
    /\ UNCHANGED <<state, pc, driver, probe, checkpointer>>

\* one node of a call: run on the call's own copy; the result is written as
\* the thread's checkpoint
CallRuns(s, c) ==
    LET call == inflight.calls[c]
        Save(st2, next) ==
            /\ state' = [state EXCEPT ![s] = st2]
            /\ pc' = [pc EXCEPT ![s] = next]
            /\ inflight' =
                 [inflight EXCEPT
                    !.calls[c] = [st   |-> st2,
                                  node |-> IF next \in {Interrupted, "END"}
                                           THEN "done" ELSE next],
                    !.revised = IF call.node = "revise_plan"
                                   /\ ~IsSet(st2.error)
                                THEN @ + 1 ELSE @]
    IN  /\ \/ /\ call.node = "revise_plan"
              /\ \E out \in LLMOutcomes(Plans) :
                   LET st2 == Merge(call.st, revise_plan(call.st, out))
                   IN  Save(st2, AfterRevise(st2))
           \/ /\ call.node = "present_for_review"
              /\ Save(Merge(call.st, present_for_review(call.st)), Interrupted)
           \/ /\ call.node = "finalize_plan"
              /\ \E render \in RenderOutcomes :
                   Save(Merge(call.st, finalize_plan(call.st, render)), "END")
           \/ /\ call.node = "handle_rejection"
              /\ Save(Merge(call.st, handle_rejection(call.st)), "END")
        /\ UNCHANGED <<driver, probe, checkpointer>>

\* get_structured_llm raises inside revise_plan: the call ends, nothing written
CallRaises(s, c) ==
    /\ inflight.calls[c].node = "revise_plan"
    /\ inflight' = [inflight EXCEPT !.calls[c].node = "done"]
    /\ UNCHANGED <<state, pc, driver, probe, checkpointer>>

RaceInit ==
    /\ driver = [t1 |-> "submit_feedback"]
    /\ \E doc \in Documents :
         state = [s \in {"t1"} |-> AgentState(doc, DefaultMaxRevisions)]
    /\ pc = [s \in {"t1"} |-> EntryPoint]
    /\ probe = NoProbe
    /\ checkpointer = TRUE
    /\ inflight = NoCalls

RaceNext ==
    \E s \in Threads :
        \/ FirstRun(s)
        \/ \E c \in CallIds : CallStarts(s, c)
        \/ \E c \in CallIds : CallRuns(s, c)
        \/ \E c \in CallIds : CallRaises(s, c)

RaceSpec == RaceInit /\ [][RaceNext]_vars

----------------------------------------------------------------------------
(* The nodes on their own: each node function applied to every AgentState    *)
(* of a bounded set, whether or not a run of the drivers reaches it (a plan  *)
(* that is unset at present_for_review or finalize_plan, an error left by an *)
(* earlier step), and the run followed from there along the edges.           *)

NodeNames ==
    {"analyze_document", "generate_plan", "present_for_review", "revise_plan",
     "finalize_plan", "handle_rejection"}

\* values of AgentState: every field is optional or has a default but document
StateInputs ==
    { [AgentState(doc, m) EXCEPT !.document_analysis = a,
                                 !.presentation_plan = p,
                                 !.status = status,
                                 !.user_feedback = fb,
                                 !.revision_count = rc,
                                 !.error = e] :
      doc \in Documents,
      m \in (0..MaxRevisionsInput) \cup {DefaultMaxRevisions},
      a \in {None} \cup {Some(x) : x \in Analyses},
      p \in {None} \cup {Some(x) : x \in Plans},
      status \in PlanStatus,
      fb \in {<<>>, <<"m","a","s"," ","d","a","t","o","s">>},
      rc \in 0..MaxRevisionsInput,
      e \in {None} \cup {Some(<<"Failed to revise plan", x>>) : x \in Exceptions} }

NodeInit ==
    /\ driver = [t1 |-> "submit_feedback"]
    /\ state \in [{"t1"} -> StateInputs]
    /\ pc \in [{"t1"} -> NodeNames]
    /\ probe = NoProbe
    /\ checkpointer = TRUE
    /\ inflight = NoCalls

NodeNext ==
    \E s \in Threads :
        \/ AnalyzeDocument(s)
        \/ GeneratePlan(s)
        \/ PresentForReview(s)
        \/ RevisePlan(s)
        \/ FinalizePlan(s)
        \/ HandleRejection(s)
        \/ ClientRaises(s)

NodeSpec == NodeInit /\ [][NodeNext]_vars

----------------------------------------------------------------------------
(* The plan summary on its own: get_slide_summary applied to every plan of   *)
(* up to MaxSlides slides whose titles are taken from TitleInputs. A title   *)
(* is any str the language model returns; it may hold line breaks.           *)

MaxSlides == 2

TitleInputs ==
    { <<"Propuesta">>,
      <<"Costos", "\n", "2025">>,
      <<"Intro", "\n">> \o FormatIndex(2) \o <<". [">> \o FormatType("closing")
         \o <<"] ", "Fin">> }

PlanInputs ==
    { [ title |-> title,
        estimated_duration_minutes |-> DefaultDuration,
        slides |-> slides ] :
      title \in {<<"Propuesta">>, <<"Costos", "\n", "2025">>},
      slides \in UNION { [1..n -> [slide_type : SlideTypes, title : TitleInputs]] :
                         n \in 0..MaxSlides } }

SummaryInit ==
    /\ state = << >>
    /\ pc = << >>
    /\ driver = << >>
    /\ checkpointer = FALSE
    /\ inflight = NoCalls
    /\ probe \in { [plan |-> plan, text |-> None] : plan \in PlanInputs }

Summarize ==
    /\ probe.text = None
    /\ probe' = [probe EXCEPT
                   !.text = Some(SummaryText(get_slide_summary(probe.plan)))]
    /\ UNCHANGED <<state, pc, driver, checkpointer, inflight>>

SummaryNext == Summarize

SummarySpec == SummaryInit /\ [][SummaryNext]_vars

----------------------------------------------------------------------------
(* The plan schema at work: what the language model sends back is a payload  *)
(* that with_structured_output(PresentationPlan) validates inside            *)
(* chain.ainvoke. generate_plan and revise_plan are run on payloads that     *)
(* fit the schema and on payloads that do not. Of the slide fields only      *)
(* slide_type and title are modelled.                                        *)

\* payloads: two that fit, one without duration and one with a closing slide
\* without title (both have defaults), and four that do not fit
Payloads ==
    { PlanA,
      PlanB,
      [ title |-> <<"Propuesta">>,
        slides |-> << [slide_type |-> "title", title |-> <<"Propuesta">>] >> ],
      [ title |-> <<"Propuesta">>, estimated_duration_minutes |-> DefaultDuration,
        slides |-> << [slide_type |-> "title", title |-> <<"Propuesta">>],
                      [slide_type |-> "closing"] >> ],
      [ estimated_duration_minutes |-> DefaultDuration,
        slides |-> << [slide_type |-> "title", title |-> <<"Propuesta">>] >> ],
      [ title |-> <<"Propuesta">>, estimated_duration_minutes |-> DefaultDuration ],
      [ title |-> <<"Propuesta">>, estimated_duration_minutes |-> DefaultDuration,
        slides |-> << [slide_type |-> "chart", title |-> <<"Costos">>] >> ],
      [ title |-> <<"Propuesta">>, estimated_duration_minutes |-> DefaultDuration,
        slides |-> << [slide_type |-> "title", title |-> <<"Propuesta">>],
                      [slide_type |-> "content"] >> ] }

\* the slide classes whose title has a default, and the default
TitleDefault(tag) ==
    CASE tag = "agenda"  -> Some(<<"Agenda">>)
      [] tag = "closing" -> Some(<<"Thank You">>)
      [] OTHER           -> None

\* validation that takes any slide_type for a slide class
model_validate_any_slide_type(payload) ==
    LET slide(sl) ==
            IF "slide_type" \notin DOMAIN sl THEN None
            ELSE IF "title" \in DOMAIN sl
                 THEN Some([slide_type |-> sl.slide_type, title |-> sl.title])
            ELSE None
    IN  IF "title" \notin DOMAIN payload \/ "slides" \notin DOMAIN payload
        THEN None
        ELSE IF \E i \in 1..Len(payload.slides) : slide(payload.slides[i]) = None
        THEN None
        ELSE Some([ title |-> payload.title,
                    estimated_duration_minutes |->
                        IF "estimated_duration_minutes" \in DOMAIN payload
                        THEN payload.estimated_duration_minutes
                        ELSE DefaultDuration,
                    slides |-> [i \in 1..Len(payload.slides) |->
                                  Get(slide(payload.slides[i]))] ])

\* PresentationPlan validation: the plan with its defaults filled in, or None
\* when a required field is missing or a slide_type names no slide class
model_validate(payload) ==
    LET slide(sl) ==
            IF "slide_type" \notin DOMAIN sl THEN None
            ELSE IF sl.slide_type \notin SlideTypes THEN None
            ELSE IF "title" \in DOMAIN sl
                 THEN Some([slide_type |-> sl.slide_type, title |-> sl.title])
            ELSE IF IsSet(TitleDefault(sl.slide_type))
                 THEN Some([slide_type |-> sl.slide_type,
                            title |-> Get(TitleDefault(sl.slide_type))])
            ELSE None
    IN  IF "title" \notin DOMAIN payload \/ "slides" \notin DOMAIN payload
        THEN None
        ELSE IF \E i \in 1..Len(payload.slides) : slide(payload.slides[i]) = None
        THEN None
        ELSE Some([ title |-> payload.title,
                    estimated_duration_minutes |->
                        IF "estimated_duration_minutes" \in DOMAIN payload
                        THEN payload.estimated_duration_minutes
                        ELSE DefaultDuration,
                    slides |-> [i \in 1..Len(payload.slides) |->
                                  Get(slide(payload.slides[i]))] ])

\* chain.ainvoke with a structured LLM: the validated plan, or the
\* validation error raised inside the call
with_structured_output(payload) ==
    LET plan == model_validate(payload)
    IN  IF IsSet(plan)
        THEN [kind |-> "ok", result |-> plan, exc |-> ""]
        ELSE [kind |-> "fail", result |-> None, exc |-> "validation"]

SchemaInit ==
    /\ driver = [t1 |-> "submit_feedback"]
    /\ state \in [{"t1"} -> StateInputs]
    /\ pc \in [{"t1"} -> {"generate_plan", "revise_plan"}]
    /\ probe \in {[payload |-> payload] : payload \in Payloads}
    /\ checkpointer = TRUE
    /\ inflight = NoCalls

\* generate_plan or revise_plan with the payload as the model's answer
ChainInvoke(s) ==
    /\ pc[s] \in {"generate_plan", "revise_plan"}
    /\ LET out == with_structured_output(probe.payload)
           st2 == IF pc[s] = "generate_plan"
                  THEN Merge(state[s], generate_plan(state[s], out))
                  ELSE Merge(state[s], revise_plan(state[s], out))
       IN  Advance(s, st2, IF pc[s] = "generate_plan" THEN AfterGenerate(st2)
                           ELSE AfterRevise(st2))

SchemaNext == \E s \in Threads : ChainInvoke(s)

SchemaSpec == SchemaInit /\ [][SchemaNext]_vars

----------------------------------------------------------------------------
(* A thread whose caller answers every stop: the thread is driven through    *)
(* submit_feedback with a revision budget small enough to be used up within  *)
(* MaxMessages; every node that is entered finishes (the external calls      *)
(* return, with a result or with an exception the node traps, and the client *)
(* is constructed), and a stopped thread is called again.                    *)

LiveInit ==
    /\ driver = [t1 |-> "submit_feedback"]
    /\ \E doc \in Documents, m \in 0..MaxRevisionsInput :
         state = [s \in {"t1"} |-> AgentState(doc, m)]
    /\ pc = [s \in {"t1"} |-> EntryPoint]
    /\ probe = NoProbe
    /\ checkpointer \in BOOLEAN
    /\ inflight = NoCalls

LiveNext ==
    \E s \in Threads :
        \/ AnalyzeDocument(s)
        \/ GeneratePlan(s)
        \/ PresentForReview(s)
        \/ RevisePlan(s)
        \/ FinalizePlan(s)
        \/ HandleRejection(s)
        \/ submit_feedback(s)

LiveSpec == LiveInit /\ [][LiveNext]_vars /\ WF_vars(LiveNext)

----------------------------------------------------------------------------
(* The review decision on its own: should_continue_review and the edges of   *)
(* present_for_review applied to every feedback text, revision_count and     *)
(* max_revisions of the bounded sets, whether or not a run reaches them      *)

RouterInit ==
    /\ state = << >>
    /\ pc = << >>
    /\ driver = << >>
    /\ checkpointer = FALSE
    /\ inflight = NoCalls
    /\ probe \in { [ st   |-> [AgentState(doc, m) EXCEPT !.user_feedback = fb,
                                                         !.revision_count = rc],
                     next |-> "none" ] :
                   doc \in Documents, m \in 0..MaxProbe,
                   rc \in 0..MaxProbe, fb \in FeedbackInputs }

Decide ==
    /\ probe.next = "none"
    /\ probe' = [probe EXCEPT !.next = AfterReview(probe.st)]
    /\ UNCHANGED <<state, pc, driver, checkpointer, inflight>>

RouterNext == Decide

RouterSpec == RouterInit /\ [][RouterNext]_vars

----------------------------------------------------------------------------
(* Vocabulary of the properties *)

\* the text is the keyword, in any letter case, between leading and trailing
\* whitespace and nothing else
Written(text, kw) ==
    \E i \in 0..Len(text) :
        /\ i + Len(kw) <= Len(text)
        /\ \A k \in 1..i : text[k] \in Whitespace
        /\ \A k \in (i + Len(kw) + 1)..Len(text) : text[k] \in Whitespace
        /\ \A k \in 1..Len(kw) : LowerChar(text[i + k]) = kw[k]

\* the keyword occurs somewhere in the text, in any letter case
Contains(text, kw) ==
    \E i \in 0..Len(text) :
        /\ i + Len(kw) <= Len(text)
        /\ \A k \in 1..Len(kw) : LowerChar(text[i + k]) = kw[k]

IsKeyword(text) == Written(text, APPROVE) \/ Written(text, REJECT)

LastMessage(st) == st.messages[Len(st.messages)]

\* the last thing the thread did was the node, with the outcome kind
Last(s, node, kind) ==
    /\ Len(state[s].messages) > 0
    /\ LastMessage(state[s]).node = node
    /\ LastMessage(state[s]).kind = kind

\* this step resumes thread s from its stop after present_for_review: the
\* review decision is taken
Resumes(s) == pc[s] = Interrupted /\ pc'[s] \notin {Interrupted, "raised"}

----------------------------------------------------------------------------
(* C1: in every reachable state of every thread, revision_count is at most *)
(* max_revisions, whatever feedback is sent and whatever the synthesis     *)
(* calls answer.                                                           *)
C1_RevisionCountWithinBudget ==
    \A s \in Threads : state[s].revision_count <= state[s].max_revisions

\* a thread that has used its whole budget of at least one revision
C1_BudgetUsedUp ==
    \E s \in Threads :
        /\ state[s].max_revisions >= 1
        /\ state[s].revision_count = state[s].max_revisions
        /\ Last(s, "present_for_review", "review")

(* C2: a review decision taken with revision_count >= max_revisions on a   *)
(* feedback that is neither keyword goes to finalize_plan, with the plan   *)
(* and revision_count as they were; revise_plan is not entered.            *)
C2_ExhaustedBudgetFinalizes ==
    [][ \A s \in Threads :
          ( /\ Resumes(s)
            /\ state[s].revision_count >= state[s].max_revisions
            /\ ~IsKeyword(state'[s].user_feedback) )
          => /\ pc'[s] = "finalize_plan"
             /\ state'[s].presentation_plan = state[s].presentation_plan
             /\ state'[s].revision_count = state[s].revision_count ]_vars

\* a plan approved by finalize_plan on a non-keyword feedback at the limit
C2_ForcedFinalizeDone ==
    \E s \in Threads :
        /\ Last(s, "finalize_plan", "ok")
        /\ pc[s] = "END"
        /\ state[s].status = APPROVED
        /\ state[s].revision_count >= state[s].max_revisions
        /\ ~IsKeyword(state[s].user_feedback)
        /\ state[s].user_feedback # <<>>

(* C3: the review decision is a strict priority list: the approve keyword  *)
(* gives finalize_plan; otherwise the reject keyword gives                 *)
(* handle_rejection; otherwise revision_count >= max_revisions gives       *)
(* finalize_plan; otherwise revise_plan; for every revision_count and      *)
(* max_revisions, below, at or above the limit.                            *)
C3_ReviewDecisionIsPriorityList ==
    probe.next # "none" =>
        LET st == probe.st
        IN  probe.next =
              IF Written(st.user_feedback, APPROVE) THEN "finalize_plan"
              ELSE IF Written(st.user_feedback, REJECT) THEN "handle_rejection"
              ELSE IF st.revision_count >= st.max_revisions THEN "finalize_plan"
              ELSE "revise_plan"

\* a rejection decided on an exhausted budget
C3_RejectWinsOverBudget ==
    /\ probe.next = "handle_rejection"
    /\ probe.st.revision_count > probe.st.max_revisions

C5_FailedReviseKeepsState ==
    [][ \A s \in Threads :
          (pc[s] = "revise_plan" /\ pc'[s] \in {"END", "raised"})
          => /\ state'[s].revision_count = state[s].revision_count
             /\ state'[s].presentation_plan = state[s].presentation_plan
             /\ state'[s].status = state[s].status
             /\ state'[s].user_feedback = state[s].user_feedback
             /\ state'[s].document = state[s].document
             /\ state'[s].document_analysis = state[s].document_analysis
             /\ state'[s].max_revisions = state[s].max_revisions
             /\ pc'[s] = "END" =>
                  /\ IsSet(state'[s].error)
                  /\ Len(state'[s].messages) = Len(state[s].messages) + 1
                  /\ SubSeq(state'[s].messages, 1, Len(state[s].messages))
                       = state[s].messages
                  /\ LastMessage(state'[s]).kind = "error" ]_vars

\* a revision failed and the feedback that asked for it is still there
C5_ReviseFailed ==
    \E s \in Threads :
        /\ Last(s, "revise_plan", "error")
        /\ pc[s] = "END"
        /\ state[s].user_feedback # <<>>
        /\ state[s].status = DRAFT
        /\ IsSet(state[s].error)

(* C6: a revise step that succeeds puts the revised plan in plan, sets     *)
(* status to DRAFT, empties feedback and makes revision_count one greater; *)
(* no step of any kind lowers revision_count.                              *)
C6_SuccessfulReviseCounts ==
    [][ \A s \in Threads :
          /\ state'[s].revision_count >= state[s].revision_count
          /\ (pc[s] = "revise_plan" /\ pc'[s] = "present_for_review")
             => /\ state'[s].presentation_plan \in {Some(p) : p \in Plans}
                /\ LastMessage(state'[s]).node = "revise_plan"
                /\ LastMessage(state'[s]).summary
                     = get_slide_summary(Get(state'[s].presentation_plan))
                /\ state'[s].status = DRAFT
                /\ state'[s].user_feedback = <<>>
                /\ state'[s].revision_count = state[s].revision_count + 1 ]_vars

\* a revision has just succeeded and replaced the plan by a different one
C6_ReviseSucceeded ==
    \E s \in Threads :
        /\ Last(s, "revise_plan", "ok")
        /\ pc[s] = "present_for_review"
        /\ state[s].revision_count = 1
        /\ \E i \in 1..Len(state[s].messages) :
              /\ state[s].messages[i].node = "generate_plan"
              /\ state[s].messages[i].summary # LastMessage(state[s]).summary

(* C7: the status of a thread only moves PENDING -> DRAFT -> DRAFT ... ->  *)
(* APPROVED or REJECTED: never from DRAFT back to PENDING, never away from *)
(* APPROVED or REJECTED, never from PENDING straight to APPROVED.          *)
C7_StatusMonotonic ==
    [][ \A s \in Threads :
          \/ state'[s].status = state[s].status
          \/ state[s].status = PENDING /\ state'[s].status = DRAFT
          \/ state[s].status = DRAFT /\ state'[s].status \in {APPROVED, REJECTED} ]_vars

(* C8: once the status is APPROVED or REJECTED a further resume call       *)
(* changes nothing: no node is entered and status, plan, analysis,         *)
(* revision_count, messages and error stay as they are.                    *)
C8_TerminalIsFinal ==
    [][ \A s \in Threads :
          state[s].status \in {APPROVED, REJECTED}
          => /\ pc'[s] = pc[s]
             /\ state'[s].status = state[s].status
             /\ state'[s].presentation_plan = state[s].presentation_plan
             /\ state'[s].document_analysis = state[s].document_analysis
             /\ state'[s].revision_count = state[s].revision_count
             /\ state'[s].messages = state[s].messages
             /\ state'[s].error = state[s].error ]_vars

(* C9: a resume of a thread waiting for review with empty or               *)
(* whitespace-only feedback is a no-op under both drivers (or is refused): *)
(* no node is entered and revision_count, plan and status stay as they     *)
(* are.                                                                    *)
C9_BlankFeedbackIsNoOp ==
    [][ \A s \in Threads :
          (pc[s] = Interrupted /\ StrStrip(state'[s].user_feedback) = <<>>)
          => /\ pc'[s] \in {Interrupted, "raised"}
             /\ state'[s].revision_count = state[s].revision_count
             /\ state'[s].presentation_plan = state[s].presentation_plan
             /\ state'[s].status = state[s].status ]_vars

(* C10: after a step that succeeds error is unset, also when an earlier    *)
(* step of the thread failed.                                              *)
C10_SuccessClearsError ==
    [][ \A s \in Threads :
          ( /\ Len(state'[s].messages) = Len(state[s].messages) + 1
            /\ LastMessage(state'[s]).kind # "error" )
          => state'[s].error = None ]_vars

(* C11: when the synthesis call of generate_plan fails, error is set,      *)
(* status is PENDING, the plan stays as it was (unset on a thread that     *)
(* never had one generated) and the run ends: present_for_review is not    *)
(* entered and the thread does not stop for review.                        *)
C11_FailedGenerateEnds ==
    [][ \A s \in Threads :
          ( /\ pc[s] = "generate_plan"
            /\ Len(state'[s].messages) = Len(state[s].messages) + 1
            /\ LastMessage(state'[s]).kind = "error" )
          => /\ IsSet(state'[s].error)
             /\ state'[s].status = PENDING
             /\ state'[s].presentation_plan = state[s].presentation_plan
             /\ (\A i \in 1..Len(state[s].messages) :
                    ~(state[s].messages[i].node = "generate_plan"
                      /\ state[s].messages[i].kind = "ok"))
                => state'[s].presentation_plan = None
             /\ pc'[s] = "END" ]_vars

\* the first generate_plan of a thread failed and its run has ended
C11_GenerateFailed ==
    \E s \in Threads :
        /\ Last(s, "generate_plan", "error")
        /\ Len(state[s].messages) = 2
        /\ pc[s] = "END"
        /\ state[s].status = PENDING
        /\ state[s].presentation_plan = None
        /\ IsSet(state[s].error)

(* C12: after a synthesis failure in analyze_document, generate_plan or    *)
(* revise_plan the thread is finished: no node is entered again and no     *)
(* feedback is consumed, under either driver (a later call changes nothing *)
(* or is refused).                                                         *)
C12_ErrorTerminatedIsAbsorbing ==
    [][ \A s \in Threads :
          (pc[s] = "END" /\ IsSet(state[s].error))
          => /\ pc'[s] \in {"END", "raised"}
             /\ state'[s] = state[s] ]_vars

(* C13: in every reachable state, an error set by analyze_document,        *)
(* generate_plan or revise_plan goes with a status that is PENDING or      *)
(* DRAFT, never APPROVED or REJECTED.                                      *)
C13_ErrorMeansNotDecided ==
    \A s \in Threads :
        IsSet(state[s].error) => state[s].status \in {PENDING, DRAFT}

(* C14: finalize_plan on a thread with a plan sets status to APPROVED and  *)
(* leaves error unset whether the deck was created, the rendering raised   *)
(* or no credential is configured; the approval message carries the plan   *)
(* summary and the rendering note.                                         *)
C14_RenderingIsBestEffort ==
    [][ \A s \in Threads :
          (pc[s] = "finalize_plan" /\ IsSet(state[s].presentation_plan))
          => /\ state'[s].status = APPROVED
             /\ state'[s].error = None
             /\ pc'[s] = "END"
             /\ Len(state'[s].messages) = Len(state[s].messages) + 1
             /\ LastMessage(state'[s]).node = "finalize_plan"
             /\ LastMessage(state'[s]).summary
                  = get_slide_summary(Get(state[s].presentation_plan))
             /\ LastMessage(state'[s]).text \in RenderOutcomes ]_vars

\* a plan approved although the rendering raised
C14_ApprovedWithRenderFailure ==
    \E s \in Threads :
        /\ Last(s, "finalize_plan", "ok")
        /\ LastMessage(state[s]).text = "failed"
        /\ state[s].status = APPROVED
        /\ state[s].error = None

C17_ResumeReloadsState ==
    [][ \A s \in Threads :
          (pc[s] = Interrupted /\ pc'[s] # Interrupted)
          => /\ state'[s] = [state[s] EXCEPT
                               !.user_feedback = state'[s].user_feedback]
             /\ pc'[s] =
                  IF Written(state'[s].user_feedback, APPROVE) THEN "finalize_plan"
                  ELSE IF Written(state'[s].user_feedback, REJECT) THEN "handle_rejection"
                  ELSE IF state[s].revision_count >= state[s].max_revisions
                       THEN "finalize_plan"
                  ELSE "revise_plan" ]_vars

(* C18: a submit_feedback call on a thread waiting for review runs one     *)
(* cycle: it enters exactly one of revise_plan, finalize_plan and          *)
(* handle_rejection; finalize_plan and handle_rejection end the run; a     *)
(* revise_plan that succeeds is followed by present_for_review and the     *)
(* next wait; analyze_document and generate_plan are not entered.          *)
C18_OneCyclePerResume ==
    [][ \A s \in Threads :
          /\ (pc[s] = Interrupted /\ pc'[s] # Interrupted)
             => pc'[s] \in {"revise_plan", "finalize_plan", "handle_rejection"}
          /\ (pc[s] = "revise_plan" /\ pc'[s] # pc[s])
             => pc'[s] \in {"present_for_review", "END", "raised"}
          /\ (pc[s] \in {"finalize_plan", "handle_rejection"} /\ pc'[s] # pc[s])
             => pc'[s] = "END"
          /\ (pc[s] \in {Interrupted, "revise_plan", "finalize_plan",
                         "handle_rejection", "present_for_review"})
             => pc'[s] \notin {"analyze_document", "generate_plan"} ]_vars

(* C15: run_agent and the caller of submit_feedback, given the same        *)
(* document, the same input lines and the same answers of the             *)
(* collaborators, are in the same state after every input: status, plan,  *)
(* revision_count, feedback, error and messages agree.                    *)
C15_DriversAgree ==
    /\ state["i"].status = state["a"].status
    /\ state["i"].presentation_plan = state["a"].presentation_plan
    /\ state["i"].revision_count = state["a"].revision_count
    /\ state["i"].user_feedback = state["a"].user_feedback
    /\ state["i"].error = state["a"].error
    /\ state["i"].messages = state["a"].messages

C20_OneStepInFlight ==
    LET running == {c \in CallIds : inflight.calls[c].node \notin {"idle", "done"}}
    IN  /\ Cardinality(running) <= 1
        /\ \A s \in Threads :
             running = {} => state[s].revision_count = inflight.revised

(* C21: no step of analyze_document, generate_plan or revise_plan ends in  *)
(* an exception: whatever fails, constructing the client included, the    *)
(* node returns an update, so the run goes on along an edge and one       *)
(* message is appended.                                                   *)
C21_NoStepRaises ==
    [][ \A s \in Threads :
          (pc[s] \in {"analyze_document", "generate_plan", "revise_plan"}
           /\ pc'[s] # pc[s])
          => /\ pc'[s] # "raised"
             /\ Len(state'[s].messages) = Len(state[s].messages) + 1 ]_vars

(* C22: messages is append-only: after every step and every resume the    *)
(* message log before the step is a prefix of the log after it.           *)
C22_MessagesAppendOnly ==
    [][ \A s \in Threads :
          /\ Len(state'[s].messages) >= Len(state[s].messages)
          /\ SubSeq(state'[s].messages, 1, Len(state[s].messages))
               = state[s].messages ]_vars

\* a thread that was resumed, revised and stopped again: five messages
C22_LogGrewAcrossResume ==
    \E s \in Threads :
        /\ pc[s] = Interrupted
        /\ Len(state[s].messages) = 5
        /\ state[s].messages[3].node = "present_for_review"
        /\ state[s].messages[4].node = "revise_plan"
        /\ Last(s, "present_for_review", "review")

(* C23: every step of analyze_document, generate_plan, revise_plan or     *)
(* finalize_plan that fails, that is, does not end with its success       *)
(* message, appends exactly one message and sets error.                   *)
C23_FailureAppendsOneMessage ==
    [][ \A s \in Threads :
          LET succeeded ==
                /\ Len(state'[s].messages) = Len(state[s].messages) + 1
                /\ LastMessage(state'[s]).kind = "ok"
          IN  (pc[s] \in {"analyze_document", "generate_plan", "revise_plan",
                          "finalize_plan"}
               /\ pc'[s] # pc[s] /\ ~succeeded)
              => /\ Len(state'[s].messages) = Len(state[s].messages) + 1
                 /\ IsSet(state'[s].error) ]_vars

(* C24: in a fresh thread, once analyze_document and then generate_plan   *)
(* have succeeded (the run stands before its first present_for_review),   *)
(* the status is DRAFT and the log holds exactly 2 messages, one of each. *)
C24_ScenarioA ==
    \A s \in Threads :
        ( /\ pc[s] = "present_for_review"
          /\ \A i \in 1..Len(state[s].messages) :
                state[s].messages[i].node # "present_for_review" )
        => /\ state[s].status = DRAFT
           /\ Len(state[s].messages) = 2
           /\ state[s].messages[1].node = "analyze_document"
           /\ state[s].messages[1].kind = "ok"
           /\ state[s].messages[2].node = "generate_plan"
           /\ state[s].messages[2].kind = "ok"

\* analysis and plan are there, the first review is about to be presented
C24_PlanGenerated ==
    \E s \in Threads :
        /\ pc[s] = "present_for_review"
        /\ Len(state[s].messages) = 2
        /\ Last(s, "generate_plan", "ok")
        /\ state[s].status = DRAFT
        /\ IsSet(state[s].document_analysis)
        /\ IsSet(state[s].presentation_plan)

\* the step appended exactly one message, written by `node` with `kind`
Appended(s, node, kind) ==
    /\ Len(state'[s].messages) = Len(state[s].messages) + 1
    /\ SubSeq(state'[s].messages, 1, Len(state[s].messages)) = state[s].messages
    /\ LastMessage(state'[s]).node = node
    /\ LastMessage(state'[s]).kind = kind

C27_FinalizeWithoutPlan ==
    [][ \A s \in Threads :
          (pc[s] = "finalize_plan" /\ state[s].presentation_plan = None
           /\ pc'[s] # pc[s])
          => /\ Appended(s, "finalize_plan", "error")
             /\ IsSet(state'[s].error)
             /\ LastMessage(state'[s]).text \notin RenderOutcomes
             /\ state'[s] = [state[s] EXCEPT !.error = state'[s].error,
                                             !.messages = state'[s].messages]
             /\ pc'[s] = "END" ]_vars

\* finalize_plan has run without a plan on a draft
C27_NoPlanToFinalize ==
    \E s \in Threads :
        /\ Last(s, "finalize_plan", "error")
        /\ Len(state[s].messages) = 1
        /\ state[s].presentation_plan = None
        /\ state[s].status = DRAFT
        /\ IsSet(state[s].error)

C29_RejectChangesStatusOnly ==
    [][ \A s \in Threads :
          /\ (pc[s] = "handle_rejection" /\ pc'[s] # pc[s])
             => /\ Appended(s, "handle_rejection", "ok")
                /\ state'[s] = [state[s] EXCEPT !.status = REJECTED,
                                                !.messages = state'[s].messages]
                /\ pc'[s] = "END"
          /\ state[s].status = REJECTED => pc[s] # "finalize_plan" ]_vars

\* a reviewed plan has been rejected
C29_Rejected ==
    \E s \in Threads :
        /\ Last(s, "handle_rejection", "ok")
        /\ pc[s] = "END"
        /\ state[s].status = REJECTED
        /\ IsSet(state[s].presentation_plan)
        /\ Written(state[s].user_feedback, REJECT)

(* C30: present_for_review changes only messages: it appends exactly one  *)
(* message and leaves every other field as it was, with a plan and        *)
(* without one; with a plan the budget it reports is                      *)
(* max_revisions - revision_count.                                        *)
C30_PresentChangesMessagesOnly ==
    [][ \A s \in Threads :
          (pc[s] = "present_for_review" /\ pc'[s] # pc[s])
          => /\ state'[s] = [state[s] EXCEPT !.messages = state'[s].messages]
             /\ IF IsSet(state[s].presentation_plan)
                THEN /\ Appended(s, "present_for_review", "review")
                     /\ LastMessage(state'[s]).n
                          = state[s].max_revisions - state[s].revision_count
                ELSE Appended(s, "present_for_review", "no_plan") ]_vars

\* present_for_review has run without a plan
C30_NoPlanPresented ==
    \E s \in Threads :
        /\ Last(s, "present_for_review", "no_plan")
        /\ state[s].presentation_plan = None
        /\ state[s].status = REVISION_REQUESTED
        /\ state[s].revision_count = 1

\* Reading a summary back: its lines, and those of them that are numbered
\* slide lines, " i. [type           ] ..."
RECURSIVE SplitLines(_)
SplitLines(text) ==
    IF \A k \in 1..Len(text) : text[k] # "\n" THEN <<text>>
    ELSE LET k == CHOOSE j \in 1..Len(text) :
                     /\ text[j] = "\n"
                     /\ \A h \in 1..(j - 1) : text[h] # "\n"
         IN  <<SubSeq(text, 1, k - 1)>> \o SplitLines(SubSeq(text, k + 1, Len(text)))

StartsWith(line, prefix) ==
    /\ Len(line) >= Len(prefix)
    /\ SubSeq(line, 1, Len(prefix)) = prefix

NumberedHead(i, tag) == FormatIndex(i) \o <<". [">> \o FormatType(tag) \o <<"] ">>

IsNumberedLine(line) ==
    \E i \in 1..(MaxSlides + 1), tag \in SlideTypes :
        StartsWith(line, NumberedHead(i, tag))

\* the (number, type) pairs of the numbered lines, in the order of the text
ReadBack(text) ==
    LET numbered == SelectSeq(SplitLines(text), IsNumberedLine)
    IN  [k \in 1..Len(numbered) |->
           CHOOSE pair \in (1..(MaxSlides + 1)) \X SlideTypes :
                StartsWith(numbered[k], NumberedHead(pair[1], pair[2]))]

(* C25: the summary keeps the slide count and the order: it states        *)
(* len(slides) as the count, and it has exactly one numbered line per     *)
(* slide, the line numbered i carrying the type of slide i, so the types  *)
(* read back from it are the types of the plan's slides in order.         *)
C25_SummaryRoundTrip ==
    (DOMAIN probe = {"plan", "text"} /\ IsSet(probe.text))
    => LET text == Get(probe.text)
           slides == probe.plan.slides
           counts == SelectSeq(SplitLines(text),
                               LAMBDA l : StartsWith(l, <<"Slides: ">>))
       IN  /\ counts = << <<"Slides: ", ToString(Len(slides))>> >>
           /\ ReadBack(text) = [i \in 1..Len(slides) |->
                                  <<i, slides[i].slide_type>>]

(* C31: presentation_plan is written only by a generate_plan or a         *)
(* revise_plan that succeeds, and the value written is a whole plan;      *)
(* present_for_review, finalize_plan, handle_rejection, every failing     *)
(* step and every driver call leave the plan, its slides and their        *)
(* order, exactly as it was.                                              *)
C31_PlanWrittenByGenerateAndRevise ==
    [][ \A s \in Threads :
          \/ state'[s].presentation_plan = state[s].presentation_plan
          \/ /\ pc[s] \in {"generate_plan", "revise_plan"}
             /\ Appended(s, pc[s], "ok")
             /\ state'[s].presentation_plan \in {Some(plan) : plan \in Plans} ]_vars

\* a revision has replaced the generated plan, and the revised plan has
\* been presented and approved since
C31_PlanReplaced ==
    \E s \in Threads :
        /\ Last(s, "finalize_plan", "ok")
        /\ state[s].messages[2].node = "generate_plan"
        /\ state[s].messages[4].node = "revise_plan"
        /\ state[s].messages[4].kind = "ok"
        /\ state[s].messages[2].summary # state[s].messages[4].summary
        /\ get_slide_summary(Get(state[s].presentation_plan))
             = state[s].messages[4].summary

(* C32: document_analysis is written at most once per thread: once        *)
(* analyze_document has set it, no step and no driver call changes it,    *)
(* and analyze_document is not run again.                                 *)
C32_AnalysisWrittenOnce ==
    [][ \A s \in Threads :
          IsSet(state[s].document_analysis)
          => /\ state'[s].document_analysis = state[s].document_analysis
             /\ pc'[s] # "analyze_document" ]_vars

(* C33: document and max_revisions are constant: no step and no driver    *)
(* call changes either of them.                                           *)
C33_DocumentAndBudgetConstant ==
    [][ \A s \in Threads :
          /\ state'[s].document = state[s].document
          /\ state'[s].max_revisions = state[s].max_revisions ]_vars

\* a thread started with max_revisions 1 that was revised once and then
\* finalized at the limit: the budget it was started with is still there
C33_BudgetKept ==
    \E s \in Threads :
        /\ Last(s, "finalize_plan", "ok")
        /\ state[s].revision_count = 1
        /\ state[s].max_revisions = 1
        /\ state[s].document \in Documents
        /\ ~Written(state[s].user_feedback, APPROVE)

\* a payload that does not fit the schema: a required field is missing or
\* a slide_type names none of the slide classes
StructurallyInvalid(payload) ==
    \/ "title" \notin DOMAIN payload
    \/ "slides" \notin DOMAIN payload
    \/ \E i \in 1..Len(payload.slides) :
          LET sl == payload.slides[i]
          IN  \/ "slide_type" \notin DOMAIN sl
              \/ sl.slide_type \notin SlideTypes
              \/ /\ "title" \notin DOMAIN sl
                 /\ sl.slide_type \in {"title", "content", "key_points",
                                       "section_header"}

(* C34: when the payload the language model returns does not fit the plan *)
(* schema, generate_plan and revise_plan fail as steps: error is set, one *)
(* error message is appended, the plan stays as it was and the run ends.  *)
C34_InvalidPayloadIsStepFailure ==
    [][ \A s \in Threads :
          ( /\ DOMAIN probe = {"payload"}
            /\ StructurallyInvalid(probe.payload)
            /\ pc[s] \in {"generate_plan", "revise_plan"}
            /\ pc'[s] # pc[s] )
          => /\ Appended(s, pc[s], "error")
             /\ IsSet(state'[s].error)
             /\ state'[s].presentation_plan = state[s].presentation_plan
             /\ pc'[s] = "END" ]_vars

\* revise_plan got a slide of an unknown type and kept the plan it had
C34_InvalidPayloadRejected ==
    \E s \in Threads :
        /\ DOMAIN probe = {"payload"}
        /\ "slides" \in DOMAIN probe.payload
        /\ \E i \in 1..Len(probe.payload.slides) :
              probe.payload.slides[i].slide_type \notin SlideTypes
        /\ Last(s, "revise_plan", "error")
        /\ LastMessage(state[s]).text = "validation"
        /\ state[s].presentation_plan = Some(PlanB)
        /\ pc[s] = "END"

(* C35: in every reachable state a status of DRAFT, APPROVED or REJECTED  *)
(* implies that the plan is set; and a thread standing at                 *)
(* present_for_review, finalize_plan or revise_plan has a plan.           *)
C35_DecidedStatusHasPlan ==
    \A s \in Threads :
        /\ state[s].status \in {DRAFT, APPROVED, REJECTED}
           => IsSet(state[s].presentation_plan)
        /\ pc[s] \in {"present_for_review", "finalize_plan", "revise_plan"}
           => IsSet(state[s].presentation_plan)

\* a thread about to revise the plan it was given to review
C35_ReviseHasPlan ==
    \E s \in Threads :
        /\ pc[s] = "revise_plan"
        /\ state[s].status = DRAFT
        /\ IsSet(state[s].presentation_plan)
        /\ Last(s, "present_for_review", "review")

(* C36: the status REVISION_REQUESTED is never reached: in every          *)
(* reachable state the status is PENDING, DRAFT, APPROVED or REJECTED,    *)
(* and it is DRAFT while a revision is in progress.                       *)
C36_RevisionRequestedUnused ==
    \A s \in Threads :
        /\ state[s].status \in {PENDING, DRAFT, APPROVED, REJECTED}
        /\ pc[s] = "revise_plan" => state[s].status = DRAFT

\* a revision was requested, failed, and the status is still DRAFT
C36_FailedRevisionStaysDraft ==
    \E s \in Threads :
        /\ Last(s, "revise_plan", "error")
        /\ state[s].status = DRAFT
        /\ pc[s] = "END"

(* C37: a thread whose caller supplies feedback at every stop, and whose  *)
(* external calls all return, terminates: it eventually is APPROVED or    *)
(* REJECTED or has ended with an error, with at most max_revisions        *)
(* revisions done.                                                        *)
C37_SessionTerminates ==
    <>(\A s \in Threads :
          /\ \/ state[s].status \in {APPROVED, REJECTED}
             \/ pc[s] = "END" /\ IsSet(state[s].error)
          /\ state[s].revision_count <= state[s].max_revisions)

====
